---- MODULE Spec2Model ----
(***************************************************************************)
(* Model of two parts of data-prep-kit:                                    *)
(*   - the blocklisting KFP pipeline (blocklisting_wf.py): three tasks     *)
(*     chained with .after() inside a dsl.ExitHandler whose exit task is   *)
(*     the Ray cluster cleanup;                                            *)
(*   - the document quality transform (doc_quality_actor.py): its          *)
(*     constructor, its transform() and the runtime factory that turns     *)
(*     CLI arguments into the transform's configuration.                   *)
(***************************************************************************)
EXTENDS Integers, Sequences, FiniteSets, TLC

(***************************************************************************)
(* Bounds                                                                  *)
(***************************************************************************)
MaxRecords == 2
MaxExtraCols == 2

VARIABLES ray_name, worker_options_ok, status, phase, outcome, cluster, calls,
          engine, lastCall

wfvars == <<ray_name, worker_options_ok, status, phase, outcome, cluster, calls>>
dqvars == <<engine, lastCall>>
vars == <<ray_name, worker_options_ok, status, phase, outcome, cluster, calls,
          engine, lastCall>>

(***************************************************************************)
(* PART 1 - blocklisting_wf.py                                             *)
(***************************************************************************)

\* Values of the ray_name pipeline parameter: the default and another one.
DefaultRayName == "blocklisting-kfp-ray"
RayNames == {DefaultRayName, "other-ray"}

\* dsl.RUN_ID_PLACEHOLDER: the id of this run.
RUN_ID_PLACEHOLDER == "run_id"

ONE_HOUR_SEC == 3600
ONE_WEEK_SEC == 604800

\* The tasks declared inside the dsl.ExitHandler block.
ExitHandlerGroup == {"compute_exec_params", "ray_cluster", "execute_job"}

\* The exit task registered by dsl.ExitHandler(clean_up_task).
ExitOpsNone == {}
ExitOps == {"clean_up_task"}

Tasks == ExitHandlerGroup \cup {"clean_up_task"}

\* Upstream tasks of a task: .after() edges and consumed outputs.
DependenciesNoAfter(t) ==
    CASE t = "compute_exec_params" -> {}
      [] t = "ray_cluster" -> {}
      [] t = "execute_job" -> {"compute_exec_params"}
      [] OTHER -> {}
Dependencies(t) ==
    CASE t = "compute_exec_params" -> {}
      [] t = "ray_cluster" -> {"compute_exec_params"}
      [] t = "execute_job" -> {"compute_exec_params", "ray_cluster"}
      [] OTHER -> {}

\* Timeouts set by ComponentUtils.add_settings_to_component, in seconds.
Timeout(t) ==
    CASE t = "clean_up_task" -> 60
      [] t = "compute_exec_params" -> ONE_HOUR_SEC * 2
      [] t = "ray_cluster" -> ONE_HOUR_SEC * 2
      [] t = "execute_job" -> ONE_WEEK_SEC
      [] OTHER -> 0

\* Timeout of the whole pipeline, dsl.get_pipeline_conf().set_timeout.
PipelineTimeout == ONE_WEEK_SEC

\* The cluster a task addresses: (ray_name, run_id) as passed to the op.
CleanUpTaskArgsDefaultName(name) == <<DefaultRayName, RUN_ID_PLACEHOLDER>>
CleanUpTaskArgs(name) == <<name, RUN_ID_PLACEHOLDER>>
CreateRayArgs(name) == <<name, RUN_ID_PLACEHOLDER>>
ExecuteRayJobsArgs(name) == <<name, RUN_ID_PLACEHOLDER>>

ClusterKeys == RayNames \X {RUN_ID_PLACEHOLDER}
ClusterStates == {"Absent", "Creating", "Ready", "Failed", "Gone"}

\* Cluster Lifecycle Orchestrator: the effect of the three Ray components on
\* the cluster they address.
RequestCluster(cl, key) == [cl EXCEPT ![key] = "Creating"]
ClusterReady(cl, key) == [cl EXCEPT ![key] = "Ready"]
ClusterFailed(cl, key) == [cl EXCEPT ![key] = "Failed"]
\* cleanup: transitions any state to Gone.
DeleteCluster(cl, key) == [cl EXCEPT ![key] = "Gone"]

Final == {"succeeded", "failed", "timedout", "cancelled"}

WFInit ==
    /\ ray_name \in RayNames
    /\ worker_options_ok \in BOOLEAN
    /\ status = [t \in Tasks |-> "pending"]
    /\ phase = "running"
    /\ outcome = "none"
    /\ cluster = [k \in ClusterKeys |-> "Absent"]
    /\ calls = [t \in Tasks |-> 0]

\* A task of the group is started by the workflow engine once all its
\* upstream tasks have succeeded.
CanStart(t) ==
    /\ phase = "running"
    /\ t \in ExitHandlerGroup
    /\ status[t] = "pending"
    /\ \A u \in Dependencies(t) : status[u] = "succeeded"

Start(t) ==
    /\ status' = [status EXCEPT ![t] = "running"]
    /\ calls' = [calls EXCEPT ![t] = @ + 1]

\* compute_exec_params_op(worker_options, actor_options)
StartComputeExecParams ==
    /\ CanStart("compute_exec_params")
    /\ Start("compute_exec_params")
    /\ UNCHANGED <<ray_name, worker_options_ok, phase, outcome, cluster>>
    /\ UNCHANGED dqvars

ComputeExecParamsSucceeds ==
    /\ phase = "running"
    /\ status["compute_exec_params"] = "running"
    /\ worker_options_ok
    /\ status' = [status EXCEPT !["compute_exec_params"] = "succeeded"]
    /\ UNCHANGED <<ray_name, worker_options_ok, phase, outcome, cluster, calls>>
    /\ UNCHANGED dqvars

\* malformed options, or any other error of the component
ComputeExecParamsFails ==
    /\ phase = "running"
    /\ status["compute_exec_params"] = "running"
    /\ status' = [status EXCEPT !["compute_exec_params"] = "failed"]
    /\ UNCHANGED <<ray_name, worker_options_ok, phase, outcome, cluster, calls>>
    /\ UNCHANGED dqvars

\* create_ray_op(ray_name, run_id, ...), after compute_exec_params
StartRayCluster ==
    /\ CanStart("ray_cluster")
    /\ Start("ray_cluster")
    /\ cluster' = RequestCluster(cluster, CreateRayArgs(ray_name))
    /\ UNCHANGED <<ray_name, worker_options_ok, phase, outcome>>
    /\ UNCHANGED dqvars

RayClusterReady ==
    /\ phase = "running"
    /\ status["ray_cluster"] = "running"
    /\ status' = [status EXCEPT !["ray_cluster"] = "succeeded"]
    /\ cluster' = ClusterReady(cluster, CreateRayArgs(ray_name))
    /\ UNCHANGED <<ray_name, worker_options_ok, phase, outcome, calls>>
    /\ UNCHANGED dqvars

\* the cluster is not ready within wait_cluster_ready_tmout
RayClusterNotReady ==
    /\ phase = "running"
    /\ status["ray_cluster"] = "running"
    /\ status' = [status EXCEPT !["ray_cluster"] = "failed"]
    /\ cluster' = ClusterFailed(cluster, CreateRayArgs(ray_name))
    /\ UNCHANGED <<ray_name, worker_options_ok, phase, outcome, calls>>
    /\ UNCHANGED dqvars

\* execute_ray_jobs_op(ray_name, run_id, ...), after ray_cluster
StartExecuteJob ==
    /\ CanStart("execute_job")
    /\ Start("execute_job")
    /\ UNCHANGED <<ray_name, worker_options_ok, phase, outcome, cluster>>
    /\ UNCHANGED dqvars

ExecuteJobSucceeds ==
    /\ phase = "running"
    /\ status["execute_job"] = "running"
    /\ cluster[ExecuteRayJobsArgs(ray_name)] = "Ready"
    /\ status' = [status EXCEPT !["execute_job"] = "succeeded"]
    /\ UNCHANGED <<ray_name, worker_options_ok, phase, outcome, cluster, calls>>
    /\ UNCHANGED dqvars

ExecuteJobFails ==
    /\ phase = "running"
    /\ status["execute_job"] = "running"
    /\ status' = [status EXCEPT !["execute_job"] = "failed"]
    /\ UNCHANGED <<ray_name, worker_options_ok, phase, outcome, cluster, calls>>
    /\ UNCHANGED dqvars

\* A running task of the group exceeds the timeout set on it.
TaskTimesOut(t) ==
    /\ phase = "running"
    /\ t \in ExitHandlerGroup
    /\ Timeout(t) > 0
    /\ status[t] = "running"
    /\ status' = [status EXCEPT ![t] = "timedout"]
    /\ UNCHANGED <<ray_name, worker_options_ok, phase, outcome, cluster, calls>>
    /\ UNCHANGED dqvars

\* The run is cancelled, or exceeds the pipeline timeout, while the group is
\* executing: the running task is stopped and nothing more is started.
Interrupt(why) ==
    /\ phase = "running"
    /\ why = "timedout" => PipelineTimeout > 0
    /\ status' = [t \in Tasks |->
                    IF status[t] = "running" THEN "cancelled" ELSE status[t]]
    /\ phase' = "exiting"
    /\ outcome' = why
    /\ UNCHANGED <<ray_name, worker_options_ok, cluster, calls>>
    /\ UNCHANGED dqvars

\* The group is left: every task succeeded, or one of them failed and the
\* tasks downstream of it can never start.
ExitGroup ==
    /\ phase = "running"
    /\ \/ /\ \A t \in ExitHandlerGroup : status[t] = "succeeded"
          /\ outcome' = "succeeded"
       \/ /\ \E t \in ExitHandlerGroup : status[t] \in {"failed", "timedout"}
          /\ \A t \in ExitHandlerGroup : status[t] # "running"
          /\ outcome' = "failed"
    /\ phase' = "exiting"
    /\ UNCHANGED <<ray_name, worker_options_ok, status, cluster, calls>>
    /\ UNCHANGED dqvars

\* cleanup_ray_op(ray_name, run_id, server_url), the exit task
StartCleanUpTask ==
    /\ phase = "exiting"
    /\ "clean_up_task" \in ExitOps
    /\ status["clean_up_task"] = "pending"
    /\ Start("clean_up_task")
    /\ UNCHANGED <<ray_name, worker_options_ok, phase, outcome, cluster>>
    /\ UNCHANGED dqvars

CleanUpTaskSucceeds ==
    /\ phase = "exiting"
    /\ status["clean_up_task"] = "running"
    /\ status' = [status EXCEPT !["clean_up_task"] = "succeeded"]
    /\ cluster' = DeleteCluster(cluster, CleanUpTaskArgs(ray_name))
    /\ UNCHANGED <<ray_name, worker_options_ok, phase, outcome, calls>>
    /\ UNCHANGED dqvars

\* the cleanup fails (logged, not retried) or exceeds its own timeout
CleanUpTaskFails(how) ==
    /\ phase = "exiting"
    /\ status["clean_up_task"] = "running"
    /\ how = "timedout" => Timeout("clean_up_task") > 0
    /\ status' = [status EXCEPT !["clean_up_task"] = how]
    /\ UNCHANGED <<ray_name, worker_options_ok, phase, outcome, cluster, calls>>
    /\ UNCHANGED dqvars

\* The run ends when every exit task has ended.
Finish ==
    /\ phase = "exiting"
    /\ \A t \in ExitOps : status[t] \in Final
    /\ phase' = "done"
    /\ UNCHANGED <<ray_name, worker_options_ok, status, outcome, cluster, calls>>
    /\ UNCHANGED dqvars

(***************************************************************************)
(* PART 2 - doc_quality_actor.py                                           *)
(***************************************************************************)

\* Python values of the drop_column_if_existed knob: a bool, or the string
\* argparse stores when the option is given (the argument has no type=).
PyBool(b) == [t |-> "bool", b |-> b, s |-> ""]
PyStr(s) == [t |-> "str", b |-> FALSE, s |-> s]
\* Python truth value, as tested by `if self.drop_column_if_existed:`
Truthy(v) == IF v.t = "bool" THEN v.b ELSE v.s # ""

\* Language tags and command lines tried.
Langs == {"en", "ja", "fr"}
NoArg == "<not given>"
ArgvSet == [ft_lang : {NoArg, "ja"}, drop_column_if_existed : {NoArg, "False"}]

\* parser.add_argument(...) of add_input_params, then parse_args: the
\* namespace holds the default of an option that is not given.
ParseArgs(argv) ==
    [ft_lang |-> IF argv.ft_lang = NoArg THEN "en" ELSE argv.ft_lang,
     drop_column_if_existed |->
        IF argv.drop_column_if_existed = NoArg
        THEN PyBool(FALSE) ELSE PyStr(argv.drop_column_if_existed)]

\* apply_input_params: self.params after the call.
ApplyInputParams(args) ==
    [ft_lang |-> args.ft_lang,
     drop_column_if_existed |-> args.drop_column_if_existed]

\* Configurations a caller passes to the constructor directly.
DirectConfigs ==
    [ft_lang : Langs]
    \cup [ft_lang : Langs, drop_column_if_existed : {PyBool(TRUE), PyBool(FALSE)}]

\* self.ft_lang and self.col_name are read by transform() and set outside
\* DocQualityTransform.__init__.
SelfFtLang(config) == config.ft_lang
col_name == "text"

Engines == {1, 2}

NotConstructed ==
    [constructed |-> FALSE, origin |-> "none", ft_lang |-> "",
     drop_column_if_existed |-> PyBool(FALSE), warning_issued |-> FALSE,
     exited |-> FALSE, warnings |-> 0, dropped |-> FALSE]

\* DocQualityTransform.__init__(config)
DocQualityTransformInit(config, origin) ==
    [constructed |-> TRUE,
     origin |-> origin,
     ft_lang |-> SelfFtLang(config),
     drop_column_if_existed |->
        IF "drop_column_if_existed" \in DOMAIN config
        THEN config.drop_column_if_existed
        ELSE PyBool(TRUE),
     warning_issued |-> FALSE,
     exited |-> FALSE,
     warnings |-> 0,
     dropped |-> FALSE]

\* new_columns of transform(), in the order of the list
new_columns ==
    << "docq_total_words",
       "docq_mean_word_len",
       "docq_symbol_to_word_ratio",
       "docq_sentence_count",
       "docq_lorem_ipsum_ratio",
       "docq_curly_bracket_ratio",
       "docq_contain_bad_word",
       "docq_avg_ja_sentence_len",
       "docq_first_ja_alphabet_pos",
       "ibmkenlm_docq_perplex_score",
       "docq_contain_common_en_words",
       "docq_bullet_point_ratio",
       "docq_ellipsis_line_ratio",
       "docq_alphabet_word_ratio" >>

\* The columns transform() appends, in the order of its append_column calls.
BaseColumns ==
    << "docq_total_words",
       "docq_mean_word_len",
       "docq_symbol_to_word_ratio",
       "docq_sentence_count",
       "docq_lorem_ipsum_ratio",
       "docq_curly_bracket_ratio",
       "docq_contain_bad_word",
       "docq_bullet_point_ratio",
       "docq_ellipsis_line_ratio",
       "docq_alphabet_word_ratio",
       "docq_contain_common_en_words",
       "ibmkenlm_docq_perplex_score" >>
JaColumns == << "docq_avg_ja_sentence_len", "docq_first_ja_alphabet_pos" >>

AppendedColumnsAlwaysJa(ft_lang) == BaseColumns \o JaColumns
AppendedColumns(ft_lang) ==
    IF ft_lang = "ja" THEN BaseColumns \o JaColumns ELSE BaseColumns

Range(f) == {f[i] : i \in DOMAIN f}

\* A table is the sequence of its columns, each a name and one value per row.
ColumnNames(table) == [i \in 1..Len(table) |-> table[i].name]
HasColumn(table, c) == \E i \in 1..Len(table) : table[i].name = c
Column(table, c) == table[CHOOSE i \in 1..Len(table) : table[i].name = c]
Occurrences(table, c) == Cardinality({i \in 1..Len(table) : table[i].name = c})

\* table.drop(column)
DropNothing(table, c) == table
Drop(table, c) == SelectSeq(table, LAMBDA col : col.name # c)

\* table.append_column(name, pa.array(values))
AppendColumn(table, c, values) == Append(table, [name |-> c, data |-> values])

\* The scoring functions are opaque: the value a function computes for a
\* column from one text.
Score(c, text) == <<c, text>>

\* The per-record loop of transform(): the list built for one column.
ScoreColumnReversed(c, texts) ==
    [i \in 1..Len(texts) |-> Score(c, texts[Len(texts) + 1 - i])]
ScoreColumn(c, texts) == [i \in 1..Len(texts) |-> Score(c, texts[i])]

\* print the warning once and set the flag
IssueWarningEveryTime(st, column) ==
    [st EXCEPT !.printed = @ + 1]
IssueWarning(st, column) ==
    IF ~st.warning_issued
    THEN [st EXCEPT !.printed = @ + 1, !.warning_issued = TRUE]
    ELSE st

\* print the error and exit(-1)
ColumnConflictIgnored(st, column) == st
ColumnConflict(st, column) ==
    [st EXCEPT !.exited = TRUE, !.conflict = column]

\* One iteration of `for column in new_columns`.
CollisionStep(st, column, drop_column_if_existed) ==
    IF st.exited \/ ~HasColumn(st.table, column)
    THEN st
    ELSE IF Truthy(drop_column_if_existed)
         THEN LET w == IssueWarning(st, column)
              IN [w EXCEPT !.table = Drop(w.table, column),
                           !.droppedNames = @ \cup {column}]
         ELSE ColumnConflict(st, column)

RECURSIVE CollisionLoop(_, _, _)
CollisionLoop(st, k, drop_column_if_existed) ==
    IF k > Len(new_columns)
    THEN st
    ELSE CollisionLoop(CollisionStep(st, new_columns[k], drop_column_if_existed),
                       k + 1, drop_column_if_existed)

\* The append_column calls of transform().
RECURSIVE Assemble(_, _, _, _)
Assemble(table, texts, columns, k) ==
    IF k > Len(columns)
    THEN table
    ELSE Assemble(AppendColumn(table, columns[k], ScoreColumn(columns[k], texts)),
                  texts, columns, k + 1)

\* Input batches: a text column of up to MaxRecords records and up to
\* MaxExtraCols further columns, feature columns or not.
Texts == {"t1", "t2"}
InputColumnNames ==
    << "title", "docq_total_words", "docq_avg_ja_sentence_len",
       "ibmkenlm_docq_perplex_score", "docq_first_ja_alphabet_pos" >>
TextColumns == UNION {[1..n -> Texts] : n \in 0..MaxRecords}
OldData(c, n) == [i \in 1..n |-> <<c, "old">>]
InputTable(texts, extras) ==
    LET names == SelectSeq(InputColumnNames, LAMBDA c : c \in extras)
    IN <<[name |-> col_name, data |-> texts]>>
       \o [i \in 1..Len(names) |->
             [name |-> names[i], data |-> OldData(names[i], Len(texts))]]
InputTables ==
    {InputTable(texts, extras) :
        texts \in TextColumns,
        extras \in {S \in SUBSET Range(InputColumnNames) :
                        Cardinality(S) <= MaxExtraCols}}

NoCall ==
    [inst |-> 0, in |-> <<>>, out |-> <<>>, exited |-> FALSE, scored |-> 0,
     printed |-> 0, droppedNames |-> {}, conflict |-> ""]

DQInit ==
    /\ engine = [i \in Engines |-> NotConstructed]
    /\ lastCall = NoCall

\* A caller constructs the transform from a configuration dictionary.
Construct(i, config) ==
    /\ ~engine[i].constructed
    /\ engine' = [engine EXCEPT ![i] = DocQualityTransformInit(config, "direct")]
    /\ UNCHANGED lastCall
    /\ UNCHANGED wfvars

\* The launcher: the factory's add_input_params and apply_input_params on
\* the command line, then the transform is constructed from self.params.
Launch(i, argv) ==
    /\ ~engine[i].constructed
    /\ LET args == ParseArgs(argv)
           self_params == ApplyInputParams(args)
           origin == IF argv.drop_column_if_existed = NoArg
                     THEN "cli_default" ELSE "cli_given"
       IN engine' = [engine EXCEPT ![i] = DocQualityTransformInit(self_params, origin)]
    /\ UNCHANGED lastCall
    /\ UNCHANGED wfvars

\* DocQualityTransform.transform(table)
Transform(i, table) ==
    /\ lastCall = NoCall
    /\ engine[i].constructed
    /\ ~engine[i].exited
    /\ LET e == engine[i]
           st0 == [table |-> table, warning_issued |-> e.warning_issued,
                   printed |-> 0, exited |-> FALSE, conflict |-> "",
                   droppedNames |-> {}]
           st == CollisionLoop(st0, 1, e.drop_column_if_existed)
           texts == Column(st.table, col_name).data
           result == Assemble(st.table, texts, AppendedColumns(e.ft_lang), 1)
       IN /\ engine' = [engine EXCEPT
                 ![i].warning_issued = st.warning_issued,
                 ![i].warnings = @ + st.printed,
                 ![i].dropped = @ \/ st.droppedNames # {},
                 ![i].exited = st.exited]
          /\ lastCall' =
                 [inst |-> i, in |-> table,
                  out |-> IF st.exited THEN <<>> ELSE <<result>>,
                  exited |-> st.exited,
                  scored |-> IF st.exited THEN 0 ELSE Len(texts),
                  printed |-> st.printed,
                  droppedNames |-> st.droppedNames,
                  conflict |-> st.conflict]
    /\ UNCHANGED wfvars

\* The caller takes the list of tables transform() returned (or observes the
\* termination of the worker) before it hands over the next table.
Collect ==
    /\ lastCall # NoCall
    /\ lastCall' = NoCall
    /\ UNCHANGED engine
    /\ UNCHANGED wfvars

WFFrozen ==
    /\ ray_name = DefaultRayName
    /\ worker_options_ok = TRUE
    /\ status = [t \in Tasks |-> "pending"]
    /\ phase = "running"
    /\ outcome = "none"
    /\ cluster = [k \in ClusterKeys |-> "Absent"]
    /\ calls = [t \in Tasks |-> 0]

InitDQ == DQInit /\ WFFrozen

NextDQ ==
    \/ \E i \in Engines, config \in DirectConfigs : Construct(i, config)
    \/ \E i \in Engines, argv \in ArgvSet : Launch(i, argv)
    \/ \E i \in Engines, table \in InputTables : Transform(i, table)
    \/ Collect

SpecDQ == InitDQ /\ [][NextDQ]_vars

InitWF == WFInit /\ DQInit

NextWF ==
    \/ StartComputeExecParams
    \/ ComputeExecParamsSucceeds
    \/ ComputeExecParamsFails
    \/ StartRayCluster
    \/ RayClusterReady
    \/ RayClusterNotReady
    \/ StartExecuteJob
    \/ ExecuteJobSucceeds
    \/ ExecuteJobFails
    \/ \E t \in ExitHandlerGroup : TaskTimesOut(t)
    \/ \E why \in {"cancelled", "timedout"} : Interrupt(why)
    \/ ExitGroup
    \/ StartCleanUpTask
    \/ CleanUpTaskSucceeds
    \/ \E how \in {"failed", "timedout"} : CleanUpTaskFails(how)
    \/ Finish

SpecWF == InitWF /\ [][NextWF]_vars

\* The workflow engine keeps scheduling: a task that can start is started, a
\* running task ends (every task has a timeout) and the exit task is run.
FairSpecWF == InitWF /\ [][NextWF]_vars /\ WF_vars(NextWF)

(***************************************************************************)
(* Properties of the pipeline                                              *)
(***************************************************************************)

\* C1: in every run the cleanup task is invoked exactly once, whatever the
\* outcome of the run (success, a failed or timed out stage, pipeline
\* timeout, cancellation): from some point on the number of invocations is
\* one for ever, and it never exceeds one.
C1_CleanupExactlyOnce ==
    /\ [](calls["clean_up_task"] <= 1)
    /\ <>[](calls["clean_up_task"] = 1)

\* a cancelled run whose cleanup has been invoked once
C1_Witness ==
    /\ phase = "done"
    /\ outcome = "cancelled"
    /\ status["execute_job"] = "cancelled"
    /\ calls["clean_up_task"] = 1

\* C2: a failed stage short-circuits the later stages but not the cleanup:
\* after a failure of compute_exec_params neither the cluster creation nor
\* the job execution is ever started, after a failure of the cluster
\* creation the job execution is never started, and the run still ends with
\* one invocation of the cleanup.
C2_FailureShortCircuits ==
    LET bad == {"failed", "timedout"}
    IN /\ status["compute_exec_params"] \in bad
            => calls["ray_cluster"] = 0 /\ calls["execute_job"] = 0
       /\ status["ray_cluster"] \in bad => calls["execute_job"] = 0
       /\ ( /\ phase = "done"
            /\ \/ status["compute_exec_params"] \in bad
               \/ status["ray_cluster"] \in bad )
            => calls["clean_up_task"] = 1

\* the cluster never became ready, the job was not submitted, cleanup ran
C2_Witness ==
    /\ phase = "done"
    /\ status["ray_cluster"] = "failed"
    /\ calls["ray_cluster"] = 1
    /\ calls["execute_job"] = 0
    /\ calls["clean_up_task"] = 1

Called == lastCall.inst # 0
Caller == engine[lastCall.inst]
InNames == Range(ColumnNames(lastCall.in))
InTexts == Column(lastCall.in, col_name).data
\* the Feature Column Set of a language tag
FeatureColumnSet(tag) == Range(AppendedColumns(tag))

C5_ConflictTerminates ==
    ( /\ Called
      /\ ~Truthy(Caller.drop_column_if_existed)
      /\ InNames \cap FeatureColumnSet(Caller.ft_lang) # {} )
        => /\ lastCall.exited
           /\ Caller.exited
           /\ lastCall.out = <<>>
           /\ lastCall.scored = 0

C5_Witness ==
    /\ Called
    /\ Caller.drop_column_if_existed = PyBool(FALSE)
    /\ "ibmkenlm_docq_perplex_score" \in InNames
    /\ Len(InTexts) > 0
    /\ lastCall.exited
    /\ lastCall.out = <<>>

\* C6: an engine prints the drop warning at most once over all its calls,
\* exactly once if it has dropped a column, and its flag is set exactly when
\* it has itself dropped a column, whatever another engine did.
C6_WarningOncePerEngine ==
    \A i \in Engines :
        /\ engine[i].warnings <= 1
        /\ engine[i].dropped <=> engine[i].warnings = 1
        /\ engine[i].warning_issued <=> engine[i].dropped

\* engine 1 drops two columns in a later call without printing again, while
\* engine 2, also dropping, has printed nothing yet
C6_Witness ==
    /\ lastCall.inst = 1
    /\ Cardinality(lastCall.droppedNames) = 2
    /\ lastCall.printed = 0
    /\ engine[1].warnings = 1
    /\ engine[2].constructed
    /\ Truthy(engine[2].drop_column_if_existed)
    /\ engine[2].warnings = 0

C9_OneValuePerRecord ==
    (Called /\ Len(lastCall.out) = 1) =>
        LET o == lastCall.out[1]
        IN /\ Occurrences(o, col_name) = 1
           /\ Column(o, col_name).data = InTexts
           /\ \A k \in 1..Len(o) : Len(o[k].data) = Len(InTexts)
           /\ \A c \in FeatureColumnSet(Caller.ft_lang) :
                 /\ Occurrences(o, c) = 1
                 /\ \A r \in 1..Len(InTexts) :
                       Column(o, c).data[r] = Score(c, InTexts[r])

C9_Witness ==
    /\ Called
    /\ Len(lastCall.out) = 1
    /\ InTexts = <<"t2", "t1">>
    /\ Column(lastCall.out[1], "docq_sentence_count").data
          = <<Score("docq_sentence_count", "t2"), Score("docq_sentence_count", "t1")>>

\* C8 as stated: an engine built from the factory's parameters when the
\* command line gives no drop_column_if_existed has the flag true.
C8_CliDefaultIsTrue ==
    \A i \in Engines :
        engine[i].origin = "cli_default"
            => engine[i].drop_column_if_existed = PyBool(TRUE)

\* C10 as stated: an input column that is not in the Feature Column Set of
\* the engine's language tag is not dropped, does not terminate the process
\* and is in the output unchanged.
C10_OnlyFeatureColumnsTouched ==
    Called =>
        \A c \in InNames \ FeatureColumnSet(Caller.ft_lang) :
            /\ c \notin lastCall.droppedNames
            /\ lastCall.conflict # c
            /\ Len(lastCall.out) = 1 =>
                  /\ Occurrences(lastCall.out[1], c) = 1
                  /\ Column(lastCall.out[1], c) = Column(lastCall.in, c)


====
